---------------------------- MODULE Spec2Model ----------------------------
(***************************************************************************)
(* Model of metadata_names: the harvest of author names from the metadata  *)
(* of office documents and PDFs.                                           *)
(*                                                                         *)
(* Two programs of the repository run the same walk:                       *)
(*   "library": metadata_names/__init__.py, extract_metadata_names         *)
(*   "script" : extract_metadata_names.py, extract_metadata_names + main   *)
(* They differ in the exceptions they catch.                               *)
(*                                                                         *)
(* Strings (str) and byte strings (bytes) are sequences of integers: code  *)
(* points and byte values. A Python value that may be None, bytes, str or  *)
(* another object is a record [t, v] (see PyNone, PyBytes, PyStr, PyObj).  *)
(***************************************************************************)
EXTENDS Integers, Sequences, FiniteSets, TLC

(***************************************************************************)
(* Bounds of the model.                                                    *)
(***************************************************************************)
\* the longest resolved path list
MaxPaths == 2
\* the longest name given to the normalizer alone (SpecNorm)
MaxNameLen == 3

(***************************************************************************)
(* Python values.                                                          *)
(***************************************************************************)
PyNone == [t |-> "none", v |-> <<>>]
PyBytes(s) == [t |-> "bytes", v |-> s]
PyStr(s) == [t |-> "str", v |-> s]
\* an object that is neither None, bytes nor str (a PDFObjRef, an int, ...)
PyObj == [t |-> "object", v |-> <<>>]

\* bool(x) of a value: None, b'' and '' are falsy
Truthy(x) == x.t = "object" \/ (x.t \in {"bytes", "str"} /\ x.v # <<>>)

\* dict.get(key) and dict.get(key, default)
DictGetDefault(d, key, default) == IF key \in DOMAIN d THEN d[key] ELSE default

DictGet(d, key) == DictGetDefault(d, key, PyNone)

\* the empty dict
EmptyDict == <<>>

(***************************************************************************)
(* unicodedata.category over the Latin-1 range, and str.isspace.           *)
(***************************************************************************)
unicodedata_category(c) ==
    CASE c \in 0..31 \cup 127..159 -> "Cc"
      [] c \in {32, 160} -> "Zs"
      [] c \in 48..57 -> "Nd"
      [] c \in 65..90 \cup 192..214 \cup 216..222 -> "Lu"
      [] c \in 97..122 \cup {181} \cup 223..246 \cup 248..255 -> "Ll"
      [] c \in {170, 186} -> "Lo"
      [] c = 173 -> "Cf"
      [] c \in {36} \cup 162..165 -> "Sc"
      [] c \in {43, 60, 61, 62, 124, 126, 172, 177, 215, 247} -> "Sm"
      [] c \in {94, 96, 168, 175, 180, 184} -> "Sk"
      [] c \in {166, 169, 174, 176} -> "So"
      [] c \in {178, 179, 185, 188, 189, 190} -> "No"
      [] c \in {40, 91, 123} -> "Ps"
      [] c \in {41, 93, 125} -> "Pe"
      [] c = 45 -> "Pd"
      [] c = 95 -> "Pc"
      [] c = 171 -> "Pi"
      [] c = 187 -> "Pf"
      [] OTHER -> "Po"

isspace(c) == c \in 9..13 \cup 28..32 \cup {133, 160}

(***************************************************************************)
(* The normalizer: keep the Lu, Ll and Zs characters, then str.strip().    *)
(***************************************************************************)
\* a plausible slip: decimal digits pass the filter too
Kept_with_digits(c) == unicodedata_category(c) \in {"Lu", "Ll", "Zs", "Nd"}

\* unicodedata_category(character) in {'Lu', 'Ll', 'Zs'}
Kept(c) == unicodedata_category(c) \in {"Lu", "Ll", "Zs"}

\* ''.join(character for character in name if ...)
RECURSIVE KeepLetters(_)
KeepLetters(s) ==
    IF s = <<>> THEN <<>>
    ELSE (IF Kept(Head(s)) THEN <<Head(s)>> ELSE <<>>) \o KeepLetters(Tail(s))

RECURSIVE lstrip(_)
lstrip(s) ==
    IF s # <<>> /\ isspace(Head(s)) THEN lstrip(Tail(s)) ELSE s

RECURSIVE rstrip(_)
rstrip(s) ==
    IF s # <<>> /\ isspace(s[Len(s)]) THEN rstrip(SubSeq(s, 1, Len(s) - 1)) ELSE s

strip(s) == rstrip(lstrip(s))

\* a plausible slip: trimming before the filter instead of after it
normalize_name_strip_first(name) == KeepLetters(strip(name))

normalize_name(name) == strip(KeepLetters(name))


(***************************************************************************)
(* Decoding of the byte-string fields.                                     *)
(***************************************************************************)
\* bytes.decode(encoding='latin-1'): byte value b becomes code point b;
\* only a bytes object has the method
HasDecode(x) == x.t = "bytes"

latin1_decode(x) == PyStr([k \in 1..Len(x.v) |-> x.v[k]])

\* str.encode('utf-16-be') of code points below 65536: two bytes each
RECURSIVE utf16be_encode(_)
utf16be_encode(s) ==
    IF s = <<>> THEN <<>>
    ELSE <<Head(s) \div 256, Head(s) % 256>> \o utf16be_encode(Tail(s))

\* b'\xfe\xff', the UTF-16BE byte-order mark
BOM == <<254, 255>>

\* bytes.startswith(prefix)
startswith(b, prefix) ==
    Len(b) >= Len(prefix) /\ SubSeq(b, 1, Len(prefix)) = prefix

\* a plausible slip: the marker is left in place
strip_bom_kept(b) == b

\* author_bytes[2:] when author_bytes starts with the marker
strip_bom(b) == IF startswith(b, BOM) THEN SubSeq(b, 3, Len(b)) ELSE b

(***************************************************************************)
(* The extractor registry. The harvester names the OOXML variant           *)
(* OfficeOpenXMLMetadataExtractor; the repository's class of that variant  *)
(* is MSXMLMetadataExtractor.                                              *)
(***************************************************************************)
OOXML == "OfficeOpenXMLMetadataExtractor"
OLE == "OLEMetadataExtractor"
PDF == "PDFMetadataExtractor"
NoExtractor == "none"

MSXML_MIME_TYPES ==
    { "application/vnd.ms-excel.addin.macroEnabled.12",
      "application/vnd.ms-excel.sheet.binary.macroEnabled.12",
      "application/vnd.ms-excel.sheet.macroEnabled.12",
      "application/vnd.ms-excel.template.macroEnabled.12",
      "application/vnd.ms-powerpoint.addin.macroEnabled.12",
      "application/vnd.ms-powerpoint.presentation.macroEnabled.12",
      "application/vnd.ms-powerpoint.slideshow.macroEnabled.12",
      "application/vnd.ms-powerpoint.template.macroEnabled.12",
      "application/vnd.ms-word.document.macroEnabled.12",
      "application/vnd.ms-word.template.macroEnabled.12",
      "application/vnd.openxmlformats-officedocument.presentationml.presentation",
      "application/vnd.openxmlformats-officedocument.presentationml.slideshow",
      "application/vnd.openxmlformats-officedocument.presentationml.template",
      "application/vnd.openxmlformats-officedocument.spreadsheetml.sheet",
      "application/vnd.openxmlformats-officedocument.spreadsheetml.template",
      "application/vnd.openxmlformats-officedocument.wordprocessingml.document",
      "application/vnd.openxmlformats-officedocument.wordprocessingml.template" }

OLE_MIME_TYPES ==
    { "application/msword",
      "application/vnd.ms-excel",
      "application/vnd.ms-powerpoint" }

PDF_MIME_TYPES == { "application/pdf" }

\* register_metadata_extractor applied to the three classes
MIME_TYPE_TO_EXTRACTOR_CLASS ==
    [m \in MSXML_MIME_TYPES \cup OLE_MIME_TYPES \cup PDF_MIME_TYPES |->
        IF m \in MSXML_MIME_TYPES THEN OOXML
        ELSE IF m \in OLE_MIME_TYPES THEN OLE ELSE PDF]

\* MetadataExtractor.extractor_from_mime_type raises KeyError for a key
\* the mapping does not hold
RaisesKeyError(mime_type) == mime_type \notin DOMAIN MIME_TYPE_TO_EXTRACTOR_CLASS

extractor_from_mime_type(mime_type) == MIME_TYPE_TO_EXTRACTOR_CLASS[mime_type]

(***************************************************************************)
(* What the collaborators can answer.                                      *)
(***************************************************************************)
\* MIME types the detector reports in the model: one of each variant and
\* two that no extractor claims
DetectedMimeTypes ==
    { "application/vnd.openxmlformats-officedocument.wordprocessingml.document",
      "application/msword",
      "application/pdf",
      "text/plain",
      "image/png" }

\* the exceptions Magic.from_file raises for a path it cannot open
DetectionErrors == { "FileNotFoundError", "PermissionError" }

\* names found in documents: '', 'A', 'A.', 'b'
NameStrs == { <<>>, <<65>>, <<65, 46>>, <<98>> }

\* the value of an OOXML core property: absent or text
XmlValues == {PyNone} \cup {PyStr(s) : s \in NameStrs}

\* the value of an OLE property: absent, a byte string (VT_LPSTR) or text
\* (VT_LPWSTR)
OleValues == {PyNone, PyStr(<<65>>)} \cup {PyBytes(s) : s \in NameStrs}

\* the value of the PDF Author entry: a byte string, a byte string that is
\* the marker followed by UTF-16BE, or an object of another type
PdfValues ==
    {PyObj} \cup {PyBytes(s) : s \in NameStrs}
            \cup {PyBytes(BOM \o utf16be_encode(s)) : s \in NameStrs \ {<<>>}}

(***************************************************************************)
(* The results of the extractors' from_path. The harvester runs on the     *)
(* extractors of the metadata_extractor package; the repository holds its  *)
(* own extractors of the same three variants. Both result layouts are      *)
(* inputs of the walk.                                                     *)
(***************************************************************************)
\* MSXMLMetadataExtractor.from_path: {'core': {...}, 'app': {...}}
MSXML_from_path(creator, lastModifiedBy) ==
    ("core" :> (("creator" :> creator) @@ ("lastModifiedBy" :> lastModifiedBy)
                @@ ("title" :> PyNone)))
    @@ ("app" :> (("Company" :> PyNone) @@ ("Template" :> PyNone)))

\* the layout the harvester's OOXML lookups are written for
OfficeOpenXML_from_path(creator, lastModifiedBy) ==
    "core.xml" :> (("dc:creator" :> creator) @@ ("cp:lastmodifiedby" :> lastModifiedBy)
                   @@ ("dc:title" :> PyNone))

\* OLEMetadataExtractor.from_path: the attributes of the two property streams
OLE_from_path(author, last_saved_by) ==
    ("SummaryInformation" :> (("author" :> author) @@ ("last_saved_by" :> last_saved_by)
                              @@ ("title" :> PyNone)))
    @@ ("DocumentSummaryInformation" :> ("company" :> PyNone))

\* the layout the harvester's OLE lookups are written for
OLE_flat_from_path(author, last_saved_by) ==
    ("author" :> author) @@ ("last_saved_by" :> last_saved_by) @@ ("title" :> PyNone)

\* PDFMetadataExtractor.from_path: the first info dictionary, or dict()
PDF_from_path(Author) == ("Author" :> Author) @@ ("Producer" :> PyBytes(<<98>>))

PDF_from_path_no_author == "Producer" :> PyBytes(<<98>>)

OOXMLResults ==
    {MSXML_from_path(c, l) : c \in XmlValues, l \in XmlValues}
    \cup {OfficeOpenXML_from_path(c, l) : c \in XmlValues, l \in XmlValues}

OLEResults ==
    {OLE_from_path(a, l) : a \in OleValues, l \in OleValues}
    \cup {OLE_flat_from_path(a, l) : a \in OleValues, l \in OleValues}

PDFResults ==
    {EmptyDict, PDF_from_path_no_author} \cup {PDF_from_path(a) : a \in PdfValues}

\* what from_path of a variant can return for a well-formed document
ResultsOf(extractor) ==
    CASE extractor = OOXML -> OOXMLResults
      [] extractor = OLE -> OLEResults
      [] extractor = PDF -> PDFResults

\* what from_path raises for a malformed document (BadZipFile or KeyError for
\* a missing docProps/core.xml, OSError of olefile, PDFSyntaxError)
MalformedError(extractor) ==
    CASE extractor = OOXML -> "BadZipFile"
      [] extractor = OLE -> "OleFileError"
      [] extractor = PDF -> "PDFSyntaxError"

(***************************************************************************)
(* The three branches of the harvester. Each gives the names it adds to    *)
(* the accumulator, the exception that leaves the branch ("none" when it   *)
(* ends normally) and whether it logged a warning.                         *)
(***************************************************************************)
Harvested(added, exc, warned) == [added |-> added, exc |-> exc, warned |-> warned]

NameIn(x) == IF Truthy(x) THEN {x.v} ELSE {}

\* if metadata_extractor is OfficeOpenXMLMetadataExtractor: ...
HarvestOOXML(md) ==
    LET core_metadata == DictGet(md, "core.xml") IN
    IF core_metadata = PyNone
    THEN Harvested({}, "AttributeError", FALSE)
    ELSE LET creator == DictGet(core_metadata, "dc:creator")
             last_modified_by == DictGet(core_metadata, "cp:lastmodifiedby")
         IN Harvested(NameIn(creator) \cup NameIn(last_modified_by), "none", FALSE)

\* elif metadata_extractor is OLEMetadataExtractor: ...
HarvestOLE(md) ==
    LET author_bytes == DictGet(md, "author")
        last_saved_by_bytes == DictGet(md, "last_saved_by")
        first == IF Truthy(author_bytes) /\ HasDecode(author_bytes)
                 THEN {latin1_decode(author_bytes).v} ELSE {}
        second == IF Truthy(last_saved_by_bytes) /\ HasDecode(last_saved_by_bytes)
                  THEN {latin1_decode(last_saved_by_bytes).v} ELSE {}
    IN IF Truthy(author_bytes) /\ ~HasDecode(author_bytes)
       THEN Harvested({}, "AttributeError", FALSE)
       ELSE IF Truthy(last_saved_by_bytes) /\ ~HasDecode(last_saved_by_bytes)
            THEN Harvested(first, "AttributeError", FALSE)
            ELSE Harvested(first \cup second, "none", FALSE)

\* elif metadata_extractor is PDFMetadataExtractor: try: ... except Exception
HarvestPDF(md) ==
    LET author_bytes == DictGetDefault(md, "Author", PyBytes(<<>>)) IN
    IF author_bytes.t # "bytes"
    THEN Harvested({}, "none", TRUE)
    ELSE Harvested(NameIn(latin1_decode(PyBytes(strip_bom(author_bytes.v)))),
                   "none", FALSE)

Harvest(extractor, md) ==
    CASE extractor = OOXML -> HarvestOOXML(md)
      [] extractor = OLE -> HarvestOLE(md)
      [] extractor = PDF -> HarvestPDF(md)

(***************************************************************************)
(* Rendering: print('\n'.join(sorted(metadata_names))).                    *)
(***************************************************************************)
\* str < str: by code point, a proper prefix first
RECURSIVE LexLess(_, _)
LexLess(a, b) ==
    IF a = <<>> THEN b # <<>>
    ELSE IF b = <<>> THEN FALSE
    ELSE IF Head(a) = Head(b) THEN LexLess(Tail(a), Tail(b))
    ELSE Head(a) < Head(b)

\* a plausible slip: the order reversed
RECURSIVE sorted_descending(_)
sorted_descending(S) ==
    IF S = {} THEN <<>>
    ELSE LET m == CHOOSE x \in S : \A y \in S : x = y \/ LexLess(y, x)
         IN <<m>> \o sorted_descending(S \ {m})

\* sorted(a set of str)
RECURSIVE sorted(_)
sorted(S) ==
    IF S = {} THEN <<>>
    ELSE LET m == CHOOSE x \in S : \A y \in S : x = y \/ LexLess(x, y)
         IN <<m>> \o sorted(S \ {m})

\* '\n'.join(list)
RECURSIVE join_lines(_)
join_lines(list) ==
    IF list = <<>> THEN <<>>
    ELSE IF Len(list) = 1 THEN list[1]
    ELSE list[1] \o <<10>> \o join_lines(Tail(list))

\* print(text) writes the text and a newline
print_text(text) == text \o <<10>>

(***************************************************************************)
(* State.                                                                  *)
(***************************************************************************)
VARIABLES
    sources,                       \* the paths the caller gave
    recurse,                       \* the recursion flag
    source_index,                  \* for source in sources: the source in hand
    variant,                       \* "library" or "script"
    exit_on_unsupported_mimetype,  \* the strict-mode flag
    paths,                         \* the resolved path list
    i,                             \* enumerate(paths, start=1): the path in hand
    pc,                            \* the position of the run
    mimetype,                      \* local: the detected MIME type
    metadata_extractor,            \* local: the extractor class
    metadata,                      \* local: the extractor's result
    names,                         \* the accumulator of raw names
    result,                        \* what extract_metadata_names returned
    raised,                        \* the exception that left extract_metadata_names
    log,                           \* the records given to LOG
    stdout,                        \* what main printed
    interrupted                    \* history: a KeyboardInterrupt was delivered

vars == <<sources, recurse, source_index,
          variant, exit_on_unsupported_mimetype, paths, i, pc, mimetype,
          metadata_extractor, metadata, names, result, raised, log, stdout,
          interrupted>>

\* the names of the files of the model: sources that are files, each taken
\* as a path as given
PathNames == <<"d.bin", "c.pdf", "b.doc", "a.docx">>

PathList(n) == [k \in 1..n |-> PathNames[Len(PathNames) - n + k]]

NoResult == [returned |-> FALSE, value |-> {}]
NoException == [type |-> "none", observed_mimetype |-> "", file_path |-> ""]
Exception(type) == [type |-> type, observed_mimetype |-> "", file_path |-> ""]

\* UnsupportedMimetypeError.__init__
UnsupportedMimetypeError(observed_mimetype, file_path) ==
    [type |-> "UnsupportedMimetypeError",
     observed_mimetype |-> observed_mimetype, file_path |-> file_path]

NothingPrinted == [printed |-> FALSE, text |-> <<>>]

LogRecord(level, path, about) == [level |-> level, path |-> path, about |-> about]

Walking == pc \in {"detect", "resolve", "extract", "harvest"}

\* the run is over: the library function returned or raised, main ended
Finished == (variant = "library" /\ pc \in {"returned", "raised"}) \/ pc = "exit"

Init ==
    /\ variant \in {"library", "script"}
    /\ exit_on_unsupported_mimetype \in BOOLEAN
    /\ \E n \in 0..MaxPaths : paths = PathList(n)
    /\ sources = paths
    /\ recurse = FALSE
    /\ source_index = Len(sources) + 1
    /\ i = 1
    /\ pc = IF paths = <<>> THEN "normalize" ELSE "detect"
    /\ mimetype = ""
    /\ metadata_extractor = NoExtractor
    /\ metadata = EmptyDict
    /\ names = {}
    /\ result = NoResult
    /\ raised = NoException
    /\ log = {}
    /\ stdout = NothingPrinted
    /\ interrupted = FALSE

(***************************************************************************)
(* The walk.                                                               *)
(***************************************************************************)
\* continue, or the end of an iteration: the next path, or the loop's end
NextPath ==
    IF i < Len(paths)
    THEN i' = i + 1 /\ pc' = "detect"
    ELSE i' = i /\ pc' = "normalize"

\* an exception leaves extract_metadata_names
Raise(exc) == pc' = "raised" /\ raised' = exc /\ i' = i

\* the library catches FileNotFoundError of the detector; the script has no
\* handler around the call
CatchesDetectionError(v, error) == v = "library" /\ error = "FileNotFoundError"

\* mimetype = get_mimetype(str(path))
Detect ==
    /\ pc = "detect"
    /\ \E answer \in DetectedMimeTypes \cup DetectionErrors :
          IF answer \in DetectedMimeTypes
          THEN /\ mimetype' = answer
               /\ pc' = "resolve"
               /\ UNCHANGED <<i, raised, log>>
          ELSE IF CatchesDetectionError(variant, answer)
          THEN /\ log' = log \cup {LogRecord("warning", paths[i], answer)}
               /\ NextPath
               /\ UNCHANGED <<mimetype, raised>>
          ELSE /\ Raise(Exception(answer))
               /\ UNCHANGED <<mimetype, log>>
    /\ UNCHANGED <<sources, recurse, source_index,
                   variant, exit_on_unsupported_mimetype, paths, metadata_extractor,
                   metadata, names, result, stdout, interrupted>>

\* a plausible slip: the flag is ignored and the path always skipped
AbortsOnUnsupported_never(flag) == FALSE

\* if exit_on_unsupported_mimetype: raise ... else: warn and continue
AbortsOnUnsupported(flag) == flag

\* metadata_extractor = MetadataExtractor.extractor_from_mime_type(...)
Resolve ==
    /\ pc = "resolve"
    /\ IF RaisesKeyError(mimetype)
       THEN IF AbortsOnUnsupported(exit_on_unsupported_mimetype)
            THEN /\ Raise(UnsupportedMimetypeError(mimetype, paths[i]))
                 /\ UNCHANGED <<metadata_extractor, log>>
            ELSE /\ log' = log \cup {LogRecord("warning", paths[i], "Unsupported mimetype")}
                 /\ NextPath
                 /\ UNCHANGED <<metadata_extractor, raised>>
       ELSE /\ metadata_extractor' = extractor_from_mime_type(mimetype)
            /\ pc' = "extract"
            /\ UNCHANGED <<i, raised, log>>
    /\ UNCHANGED <<sources, recurse, source_index,
                   variant, exit_on_unsupported_mimetype, paths, mimetype, metadata,
                   names, result, stdout, interrupted>>

\* metadata = metadata_extractor.from_path(path=path), a well-formed document
Extract ==
    /\ pc = "extract"
    /\ \E md \in ResultsOf(metadata_extractor) :
          /\ metadata' = md
          /\ IF md = EmptyDict THEN NextPath ELSE pc' = "harvest" /\ i' = i
    /\ UNCHANGED <<sources, recurse, source_index,
                   variant, exit_on_unsupported_mimetype, paths, mimetype,
                   metadata_extractor, names, result, raised, log, stdout,
                   interrupted>>

\* metadata_extractor.from_path(path=path) raises: a malformed document
ExtractFails ==
    /\ pc = "extract"
    /\ Raise(Exception(MalformedError(metadata_extractor)))
    /\ UNCHANGED <<sources, recurse, source_index,
                   variant, exit_on_unsupported_mimetype, paths, mimetype,
                   metadata_extractor, metadata, names, result, log, stdout,
                   interrupted>>

\* the branch on the extractor class
HarvestNames ==
    /\ pc = "harvest"
    /\ LET h == Harvest(metadata_extractor, metadata) IN
          /\ names' = names \cup h.added
          /\ log' = IF h.warned
                    THEN log \cup {LogRecord("warning", paths[i], "Author")}
                    ELSE log
          /\ IF h.exc # "none"
             THEN Raise(Exception(h.exc))
             ELSE NextPath /\ raised' = raised
    /\ UNCHANGED <<sources, recurse, source_index,
                   variant, exit_on_unsupported_mimetype, paths, mimetype,
                   metadata_extractor, metadata, result, stdout, interrupted>>

\* the library's walk is inside try: ... except KeyboardInterrupt: pass;
\* the script's is not
CatchesInterrupt(v) == v = "library"

\* the user interrupts the walk
Interrupt ==
    /\ Walking
    /\ ~interrupted
    /\ interrupted' = TRUE
    /\ IF CatchesInterrupt(variant)
       THEN pc' = "normalize" /\ UNCHANGED <<i, raised>>
       ELSE Raise(Exception("KeyboardInterrupt"))
    /\ UNCHANGED <<sources, recurse, source_index,
                   variant, exit_on_unsupported_mimetype, paths, mimetype,
                   metadata_extractor, metadata, names, result, log, stdout>>

\* return {normalized name for name in names}
Return ==
    /\ pc = "normalize"
    /\ result' = [returned |-> TRUE, value |-> {normalize_name(name) : name \in names}]
    /\ pc' = "returned"
    /\ UNCHANGED <<sources, recurse, source_index,
                   variant, exit_on_unsupported_mimetype, paths, i, mimetype,
                   metadata_extractor, metadata, names, raised, log, stdout,
                   interrupted>>

(***************************************************************************)
(* main of the script.                                                     *)
(***************************************************************************)
\* else: print('\n'.join(sorted(metadata_names)))
MainPrint ==
    /\ variant = "script"
    /\ pc = "returned"
    /\ stdout' = [printed |-> TRUE,
                  text |-> print_text(join_lines(sorted(result.value)))]
    /\ pc' = "exit"
    /\ UNCHANGED <<sources, recurse, source_index,
                   variant, exit_on_unsupported_mimetype, paths, i, mimetype,
                   metadata_extractor, metadata, names, result, raised, log,
                   interrupted>>

\* except KeyboardInterrupt: pass / except UnsupportedMimetypeError as e:
\* LOG.error(e) / except: LOG.exception('Unexpected error')
MainExcept ==
    /\ variant = "script"
    /\ pc = "raised"
    /\ log' = CASE raised.type = "KeyboardInterrupt" -> log
                [] raised.type = "UnsupportedMimetypeError" ->
                      log \cup {LogRecord("error", raised.file_path, raised.observed_mimetype)}
                [] OTHER ->
                      log \cup {LogRecord("error", paths[i], "Unexpected error")}
    /\ pc' = "exit"
    /\ UNCHANGED <<sources, recurse, source_index,
                   variant, exit_on_unsupported_mimetype, paths, i, mimetype,
                   metadata_extractor, metadata, names, result, raised, stdout,
                   interrupted>>

Next ==
    \/ Detect
    \/ Resolve
    \/ Extract
    \/ ExtractFails
    \/ HarvestNames
    \/ Interrupt
    \/ Return
    \/ MainPrint
    \/ MainExcept

Spec == Init /\ [][Next]_vars

(***************************************************************************)
(* The normalizer alone: the run stands at its return statement after one  *)
(* OOXML document whose creator is any string over NormAlphabet of at most *)
(* MaxNameLen characters.                                                  *)
(***************************************************************************)
\* NUL, tab, space, '.', '1', 'A', 'b', no-break space
NormAlphabet == {0, 9, 32, 46, 49, 65, 98, 160}

NormStrings == UNION {[1..k -> NormAlphabet] : k \in 0..MaxNameLen}

InitNorm ==
    /\ variant \in {"library", "script"}
    /\ exit_on_unsupported_mimetype = FALSE
    /\ paths = PathList(1)
    /\ sources = paths
    /\ recurse = FALSE
    /\ source_index = Len(sources) + 1
    /\ i = 1
    /\ pc = "normalize"
    /\ mimetype = "application/vnd.openxmlformats-officedocument.wordprocessingml.document"
    /\ metadata_extractor = OOXML
    /\ \E s \in NormStrings :
          /\ metadata = OfficeOpenXML_from_path(PyStr(s), PyNone)
          /\ names = NameIn(PyStr(s))
    /\ result = NoResult
    /\ raised = NoException
    /\ log = {}
    /\ stdout = NothingPrinted
    /\ interrupted = FALSE

NextNorm ==
    \/ Return
    \/ MainPrint

SpecNorm == InitNorm /\ [][NextNorm]_vars

(***************************************************************************)
(* Properties.                                                             *)
(***************************************************************************)
\* the step taken is a step of the walk itself, not the delivery of an interrupt
NotInterruptStep == interrupted' = interrupted

\* the position of the walk after a path is skipped or finished
AfterPath(k) == IF k < Len(paths) THEN "detect" ELSE "normalize"

C1_Step ==
    (pc = "resolve" /\ RaisesKeyError(mimetype) /\ NotInterruptStep) =>
        /\ names' = names
        /\ IF exit_on_unsupported_mimetype
           THEN /\ pc' = "raised"
                /\ raised' = UnsupportedMimetypeError(mimetype, paths[i])
                /\ i' = i
           ELSE /\ raised' = NoException
                /\ pc' = AfterPath(i)
                /\ i' = (IF i < Len(paths) THEN i + 1 ELSE i)

C1_NoLaterPath ==
    raised.type = "UnsupportedMimetypeError" =>
        /\ raised' = raised
        /\ i' = i
        /\ names' = names
        /\ result' = NoResult
        /\ stdout' = NothingPrinted
        /\ pc' \in {"raised", "exit"}

\* C1: a path whose MIME type has no registered extractor: in strict mode the
\* run raises UnsupportedMimetypeError carrying exactly that MIME type and
\* that path and no later path is processed; otherwise the path adds no
\* name and the walk goes on with the next path (or ends normally).
C1_UnsupportedMimetype == [][C1_Step /\ C1_NoLaterPath]_vars

\* C1: the strict run stopped at the first of two paths, the second untouched
C1_Witness ==
    /\ Len(paths) = 2
    /\ i = 1
    /\ exit_on_unsupported_mimetype
    /\ raised = UnsupportedMimetypeError("text/plain", paths[1])
    /\ Finished

\* C2: in non-strict mode the failure of an extractor on a malformed
\* document never leaves the run: the file is skipped and the run returns.
C2_MalformedNeverAborts ==
    ~exit_on_unsupported_mimetype =>
        raised.type \notin {MalformedError(OOXML), MalformedError(OLE), MalformedError(PDF)}

\* C3: a run that was interrupted during the walk ends with a result: the
\* normalized set of the names accumulated before the interrupt.
C3_InterruptKeepsResult ==
    (interrupted /\ Finished) =>
        /\ result.returned
        /\ result.value = {normalize_name(name) : name \in names}
        /\ (variant = "script" => stdout.printed)

\* C4: a failure of MIME detection (the path does not exist or cannot be
\* read) never leaves the run: the path is skipped with a warning.
C4_DetectionFailureSkipped == raised.type \notin DetectionErrors

\* the sections and fields the harvest is said to read, in either layout
C5_Core(md) == IF "core" \in DOMAIN md THEN md["core"] ELSE md["core.xml"]

C5_Creator(md) ==
    IF "creator" \in DOMAIN C5_Core(md)
    THEN C5_Core(md)["creator"] ELSE C5_Core(md)["dc:creator"]

C5_LastModifiedBy(md) ==
    IF "lastModifiedBy" \in DOMAIN C5_Core(md)
    THEN C5_Core(md)["lastModifiedBy"] ELSE C5_Core(md)["cp:lastmodifiedby"]

C5_Summary(md) ==
    IF "SummaryInformation" \in DOMAIN md THEN md["SummaryInformation"] ELSE md

C5_Decoded(x) == IF Truthy(x) THEN {latin1_decode(x).v} ELSE {}

\* every name field holds a value of the type of its format: text in OOXML,
\* a byte string in OLE and PDF (or nothing)
C5_WellTyped ==
    CASE metadata_extractor = OOXML -> TRUE
      [] metadata_extractor = OLE ->
            /\ C5_Summary(metadata)["author"].t \in {"none", "bytes"}
            /\ C5_Summary(metadata)["last_saved_by"].t \in {"none", "bytes"}
      [] metadata_extractor = PDF ->
            DictGetDefault(metadata, "Author", PyBytes(<<>>)).t = "bytes"

C5_Names ==
    CASE metadata_extractor = OOXML ->
            NameIn(C5_Creator(metadata)) \cup NameIn(C5_LastModifiedBy(metadata))
      [] metadata_extractor = OLE ->
            C5_Decoded(C5_Summary(metadata)["author"])
            \cup C5_Decoded(C5_Summary(metadata)["last_saved_by"])
      [] metadata_extractor = PDF ->
            C5_Decoded(PyBytes(strip_bom(DictGetDefault(metadata, "Author", PyBytes(<<>>)).v)))

C5_Step ==
    (pc = "harvest" /\ NotInterruptStep /\ C5_WellTyped) =>
        /\ names' = names \cup C5_Names
        /\ pc' = AfterPath(i)

RECURSIVE IsSubsequence(_, _)
IsSubsequence(a, b) ==
    IF a = <<>> THEN TRUE
    ELSE IF b = <<>> THEN FALSE
    ELSE IF Head(a) = Head(b) THEN IsSubsequence(Tail(a), Tail(b))
    ELSE IsSubsequence(a, Tail(b))

\* C6: every normalized name holds only Lu, Ll and Zs characters, in the
\* order they have in a raw name, and neither starts nor ends with
\* whitespace.
C6_NormalizedShape ==
    result.returned =>
        \A name \in result.value :
            /\ \A k \in 1..Len(name) :
                   unicodedata_category(name[k]) \in {"Lu", "Ll", "Zs"}
            /\ name # <<>> => ~isspace(name[1]) /\ ~isspace(name[Len(name)])
            /\ \E raw \in names : IsSubsequence(name, raw)

\* C6: ' A1' was normalized to 'A'
C6_Witness ==
    /\ result.returned
    /\ names = {<<32, 65, 49>>}
    /\ result.value = {<<65>>}

\* C7: normalizing a name the run returned gives that name again.
C7_Idempotent ==
    result.returned => \A name \in result.value : normalize_name(name) = name

\* C7: '. A' was normalized to 'A' (the filter uncovers a leading space)
C7_Witness ==
    /\ result.returned
    /\ names = {<<46, 32, 65>>}
    /\ result.value = {<<65>>}

\* str.split('\n')
RECURSIVE SplitLines(_, _, _)
SplitLines(text, line, lines) ==
    IF text = <<>> THEN Append(lines, line)
    ELSE IF Head(text) = 10 THEN SplitLines(Tail(text), <<>>, Append(lines, line))
    ELSE SplitLines(Tail(text), Append(line, Head(text)), lines)

\* the lines main printed, without the newline that ends the output
PrintedLines == SplitLines(SubSeq(stdout.text, 1, Len(stdout.text) - 1), <<>>, <<>>)

\* C8: what main prints is the normalized names, one per line, in strictly
\* ascending order (so none twice); with no name at all, an empty line.
C8_SortedNoDuplicates ==
    stdout.printed =>
        /\ stdout.text # <<>>
        /\ stdout.text[Len(stdout.text)] = 10
        /\ IF result.value = {}
           THEN stdout.text = <<10>>
           ELSE /\ {PrintedLines[k] : k \in DOMAIN PrintedLines} = result.value
                /\ \A j, k \in DOMAIN PrintedLines :
                       j < k => LexLess(PrintedLines[j], PrintedLines[k])

\* C8: three raw names, two of them equal after normalization, were printed
C8_Witness ==
    /\ stdout.printed
    /\ names = {<<65>>, <<65, 46>>, <<98>>}
    /\ result.value = {<<65>>, <<98>>}
    /\ stdout.text = <<65, 10, 98, 10>>

\* decoding the value raises
C9_DecodeFails(x) == Truthy(x) /\ ~HasDecode(x)

\* the name fields the harvester decodes for the document in hand
C9_Fields ==
    CASE metadata_extractor = OLE ->
            {DictGet(metadata, "author"), DictGet(metadata, "last_saved_by")}
      [] metadata_extractor = PDF ->
            {DictGetDefault(metadata, "Author", PyBytes(<<>>))}
      [] OTHER -> {}

C9_Step ==
    (pc = "harvest" /\ NotInterruptStep /\ \E x \in C9_Fields : C9_DecodeFails(x)) =>
        /\ pc' = AfterPath(i)
        /\ raised' = NoException
        /\ log' # log
        /\ names' = names \cup UNION {C5_Decoded(x) : x \in {y \in C9_Fields : HasDecode(y)}}

\* C9: when one name field of a document fails to decode, a warning is
\* logged, only that field is skipped, the document's other name fields are
\* added and the walk goes on with the next path.
C9_DecodeFailurePerField == [][C9_Step]_vars

C10_Marked ==
    /\ metadata_extractor = PDF
    /\ "Author" \in DOMAIN metadata
    /\ metadata["Author"].t = "bytes"
    /\ startswith(metadata["Author"].v, BOM)

C10_Payload == SubSeq(metadata["Author"].v, 3, Len(metadata["Author"].v))

C10_Step ==
    (pc = "harvest" /\ NotInterruptStep /\ C10_Marked) =>
        /\ names' = names \cup (IF C10_Payload = <<>> THEN {} ELSE {C10_Payload})
        /\ \A k \in 1..Len(normalize_name(C10_Payload)) :
               unicodedata_category(normalize_name(C10_Payload)[k]) # "Cc"

\* no document of the model holds the characters 0xFE or 0xFF but in the
\* marker, so a returned name holding one would have it from the marker
C10_Result ==
    result.returned =>
        \A name \in result.value : \A k \in 1..Len(name) :
            /\ unicodedata_category(name[k]) # "Cc"
            /\ name[k] \notin {254, 255}

\* C10: for a PDF Author that is 0xFE 0xFF followed by UTF-16BE bytes, the
\* marker is removed before decoding: the raw name is the decoded rest, and
\* no returned name holds a control character (NUL) or a character of the
\* marker.
C10_MarkerStripped == [][C10_Step]_vars /\ []C10_Result

\* C10: Author = FE FF 00 41 gave the raw name NUL 'A' and the name 'A'
C10_Witness ==
    /\ result.returned
    /\ metadata = PDF_from_path(PyBytes(BOM \o <<0, 65>>))
    /\ names = {<<0, 65>>}
    /\ result.value = {<<65>>}

(***************************************************************************)
(* The resolution of the sources into the path list, before the walk.      *)
(***************************************************************************)
\* the most sources a caller gives
MaxSources == 2

\* the directories and files of the file system of the model
Directories == {"docs", "docs/sub", "docs/sub/deep", "docs/empty"}

Files == {"docs/a.docx", "docs/b.pdf", "docs/sub/c.doc", "docs/sub/deep/d.pdf", "x.pdf"}

\* the directory that holds an entry ("." holds the top-level entries)
parent_of ==
    [p \in Directories \cup Files |->
        CASE p \in {"docs", "x.pdf"} -> "."
          [] p \in {"docs/a.docx", "docs/b.pdf", "docs/sub", "docs/empty"} -> "docs"
          [] p \in {"docs/sub/c.doc", "docs/sub/deep"} -> "docs/sub"
          [] p = "docs/sub/deep/d.pdf" -> "docs/sub/deep"]

\* what a caller can name: any entry, or a path that does not exist
SourceChoices == Directories \cup Files \cup {"missing"}

\* Path.is_dir(): False for a file and for a path that does not exist
is_dir(p) == p \in Directories

\* p lies in d or in a directory below d
RECURSIVE IsUnder(_, _)
IsUnder(p, d) ==
    /\ p \in DOMAIN parent_of
    /\ (parent_of[p] = d \/ IsUnder(parent_of[p], d))

\* a plausible slip: the directories are always searched recursively
glob_pattern_recursive(flag) == "**/*"

\* '**/*' if recurse else '*'
glob_pattern(flag) == IF flag THEN "**/*" ELSE "*"

\* source.glob(pattern): the entries of the directory, or all entries below it
glob(source, pattern) ==
    IF pattern = "*"
    THEN {p \in DOMAIN parent_of : parent_of[p] = source}
    ELSE {p \in DOMAIN parent_of : IsUnder(p, source)}

\* the orders in which a directory scan can yield a set of entries
Orderings(S) ==
    {q \in [1..Cardinality(S) -> S] : \A j, k \in DOMAIN q : j # k => q[j] # q[k]}

\* one iteration of: for source in sources
ResolveSource ==
    /\ pc = "sources"
    /\ source_index <= Len(sources)
    /\ LET source == sources[source_index] IN
          IF is_dir(source)
          THEN \E found \in Orderings({p \in glob(source, glob_pattern(recurse)) :
                                            ~is_dir(p)}) :
                  paths' = paths \o found
          ELSE paths' = Append(paths, source)
    /\ source_index' = source_index + 1
    /\ UNCHANGED <<sources, recurse, variant, exit_on_unsupported_mimetype, i, pc,
                   mimetype, metadata_extractor, metadata, names, result, raised,
                   log, stdout, interrupted>>

\* names = set(), and the walk starts (or has nothing to walk over)
StartWalk ==
    /\ pc = "sources"
    /\ source_index > Len(sources)
    /\ pc' = (IF paths = <<>> THEN "normalize" ELSE "detect")
    /\ i' = 1
    /\ names' = {}
    /\ UNCHANGED <<sources, recurse, source_index, variant,
                   exit_on_unsupported_mimetype, paths, mimetype,
                   metadata_extractor, metadata, result, raised, log, stdout,
                   interrupted>>

\* the entry of extract_metadata_names
InitResolve ==
    /\ variant \in {"library", "script"}
    /\ exit_on_unsupported_mimetype = FALSE
    /\ recurse \in BOOLEAN
    /\ sources \in UNION {[1..n -> SourceChoices] : n \in 0..MaxSources}
    /\ source_index = 1
    /\ paths = <<>>
    /\ i = 1
    /\ pc = "sources"
    /\ mimetype = ""
    /\ metadata_extractor = NoExtractor
    /\ metadata = EmptyDict
    /\ names = {}
    /\ result = NoResult
    /\ raised = NoException
    /\ log = {}
    /\ stdout = NothingPrinted
    /\ interrupted = FALSE

NextResolve ==
    \/ ResolveSource
    \/ StartWalk

SpecResolve == InitResolve /\ [][NextResolve]_vars

\* what one iteration appended to the path list
C11_Added == SubSeq(paths', Len(paths) + 1, Len(paths'))

C11_Step ==
    (pc = "sources" /\ source_index' = source_index + 1) =>
        /\ SubSeq(paths', 1, Len(paths)) = paths
        /\ is_dir(sources[source_index]) /\ ~recurse =>
              /\ {C11_Added[k] : k \in DOMAIN C11_Added}
                    = {p \in Files : parent_of[p] = sources[source_index]}
              /\ \A j, k \in DOMAIN C11_Added : j # k => C11_Added[j] # C11_Added[k]
              /\ \A k \in DOMAIN C11_Added :
                    \A d \in Directories :
                        (d # sources[source_index] /\ IsUnder(d, sources[source_index]))
                            => ~IsUnder(C11_Added[k], d)
        /\ ~is_dir(sources[source_index]) => C11_Added = <<sources[source_index]>>

\* C11: a directory source with recurse false adds exactly the
\* non-directory entries directly inside it, never a file of one of its
\* subdirectories; a source that is not a directory adds itself, as given.
C11_DirectEntriesOnly == [][C11_Step]_vars

\* C11: 'docs' without recursion gave its two files and not those of
\* docs/sub; the file x.pdf was taken as given
C11_Witness ==
    /\ ~recurse
    /\ sources = <<"docs", "x.pdf">>
    /\ source_index = 3
    /\ paths = <<"docs/a.docx", "docs/b.pdf", "x.pdf">>
=============================================================================
